---- MODULE Spec2Model ----
(***************************************************************************)
(* A model of the cloudviews-light viewer (docs/script.js and its two      *)
(* sibling variants): the manifest/image loader, the requestAnimationFrame *)
(* playback engine, the scrubber and the central updateUI entry point.     *)
(*                                                                         *)
(* Every action is one callback of the page run to completion: a control   *)
(* event handler, an image onload/onerror handler together with the        *)
(* continuation of loadAllImages that the settled promise resumes in the   *)
(* same task, or one display refresh running the pending                   *)
(* requestAnimationFrame callbacks, or one pointer event handler of the    *)
(* zoom / magnifier interaction.                                           *)
(***************************************************************************)
EXTENDS Integers, Sequences, FiniteSets, TLC

\* ------------------------------------------------------------------ bounds
MaxFrames == 2      \* longest manifest
MaxPaths  == 2      \* distinct frame identifiers a manifest draws from
MaxTicks  == 7      \* the clock is modelled up to MaxTicks * TickUnit ms
SubPixel  == 2      \* lengths are counted in units of 1/SubPixel CSS pixel

\* --------------------------------------------------------------- constants
ANIMATION_FPS           == 5
LAST_FRAME_HOLD_TIME_MS == 1000
FRAME_INTERVAL_MS       == 1000 \div ANIMATION_FPS

\* The value of (x % 0) and of every arithmetic on it in JavaScript.
NaN == -999
\* The markup of the scrubber is not set by the script before load completes;
\* an <input type="range"> without a max attribute has max 100.
RANGE_DEFAULT_MAX == 100

\* Granularity of the modelled clock: display refreshes come one or two frame
\* intervals apart, so that a refresh can fall before, on, or after a dwell
\* threshold.
TickUnit   == FRAME_INTERVAL_MS
TickDeltas == {TickUnit, 2 * TickUnit}
MaxTime    == MaxTicks * TickUnit

Paths     == 1..MaxPaths
\* The manifests, up to renaming of the identifiers: identifiers are numbered
\* in the order of their first occurrence.
Manifests == {m \in UNION {[1..n -> Paths] : n \in 0..MaxFrames} :
                 \A i \in 1..Len(m) : m[i] = 1 \/ \E j \in 1..i-1 : m[j] = m[i] - 1}
NoSrc     == 0      \* goesImage.src before any displayFrame swapped it

\* The three pointer interactions: the clamped-origin zoom, the fixed-point
\* zoom and the magnifier lens.
Variants == {"clamped", "fixed", "lens"}
CONTROL_INSET_PX  == 80
ALLOW_MOUSE_INPUT == TRUE
MAG_ZOOM     == [num |-> 5, den |-> 2]
MAG_DIAMETER == 180
MAG_RADIUS   == MAG_DIAMETER \div 2
MAG_OFFSET   == [x |-> 16, y |-> 0 - (MAG_RADIUS + 16)]

\* The pointers of the device: a first finger, a pen, a second finger put
\* down while the first is down, and the mouse.
PointerType == <<"touch", "pen", "touch", "mouse">>
IsPrimary   == <<TRUE, TRUE, FALSE, TRUE>>
PointerIds  == DOMAIN PointerType
NoPointer   == 0    \* activePointerId / zoomPointerId = null

VARIABLES
    fetchState,       \* "pending" | "ok" | "failed": the manifest fetch of fetchImages
    imagePaths,       \* the manifest, a sequence of frame identifiers
    imageCache,       \* the identifiers that have a cached Image
    loadStatus,       \* per manifest position: "pending" | "loaded" | "failed"
    loadPromise,      \* Promise.all(loadPromises): "none" | "pending" | "resolved" | "rejected"
    loadedCount,
    loadingMessage,   \* [kind, k]: textContent of loadingMessage
    loadingShown,     \* loadingMessage.style.display is not 'none'
    controlsShown,    \* image and .controls-container revealed
    scrubberShown,    \* scrubber.parentElement revealed
    scrubberMax,
    scrubberValue,
    goesImageSrc,
    currentIndex,
    isPlaying,
    lastFrameTime,
    scheduled,        \* number of pending requestAnimationFrame(runAnimationLoop) callbacks
    idPending,        \* animationFrameId names one of the pending callbacks
    now,              \* performance.now() / timestamp of the latest refresh
    lastEvent,        \* name of the loader, control or refresh handler that ran last
    synced,           \* that handler called updateUI
    variant,          \* which of the three pointer interactions the page runs
    gestureActive,    \* isZooming / zoomActive / magnifierActive
    activePointerId,  \* zoomPointerId / activePointerId (the clamped variant keeps none)
    captured,         \* pointer ids whose capture the target element holds
    down,             \* pointer ids that are down
    imageRectCache,   \* clamped variant: the rectangle taken at pointer-down
    layout,           \* what getBoundingClientRect() returns now
    visual,           \* transform and transform-origin, or the lens position
    lensShown,        \* magnifier.style.display is 'block'
    lensSrc,          \* the frame in magnifier.style.backgroundImage
    appliedAt,        \* history: the client position and the rectangle that visual was computed from
    fetchCount,       \* history: per identifier, the Image loads issued (img.src = path)
    writeCount,       \* history: per identifier, the assignments imageCache[path] = img
    hist,             \* history: the event before the last one and the state before it
    loop              \* history: the run of the animation since it was last started

vars == <<fetchState, imagePaths, imageCache, loadStatus, loadPromise, loadedCount,
          loadingMessage, loadingShown, controlsShown, scrubberShown, scrubberMax,
          scrubberValue, goesImageSrc, currentIndex, isPlaying, lastFrameTime,
          scheduled, idPending, now, lastEvent, synced, variant, gestureActive,
          activePointerId, captured, down, imageRectCache, layout, visual,
          lensShown, lensSrc, appliedAt, fetchCount, writeCount, hist, loop>>

loadVars == <<fetchState, imagePaths, imageCache, loadStatus, loadPromise, loadedCount,
              loadingMessage, loadingShown, controlsShown, scrubberShown, scrubberMax,
              fetchCount, writeCount>>

\* What no loader, control or refresh handler touches.
pointerVars == <<variant, gestureActive, activePointerId, captured, down,
                 imageRectCache, layout, visual, lensShown, appliedAt>>

N == Len(imagePaths)

Msg(kind, k) == [kind |-> kind, k |-> k]

\* ----------------------------------------------------------- pure helpers
Min(a, b) == IF a < b THEN a ELSE b
Max(a, b) == IF a > b THEN a ELSE b

\* JavaScript's a % n on the operands the script produces.
JsMod(a, n) ==
    IF a = NaN \/ n = 0 THEN NaN
    ELSE IF a >= 0 THEN a % n ELSE 0 - ((0 - a) % n)

JsAdd(a, b) == IF a = NaN THEN NaN ELSE a + b

\* prevFrame without the "+ imagePaths.length" that keeps the operand of %
\* non-negative.
PrevIndex_NoWrap(i, n) == JsMod(JsAdd(i, 0 - 1), n)

\* prevFrame's and nextFrame's index arithmetic.
PrevIndex(i, n) == JsMod(JsAdd(JsAdd(i, 0 - 1), n), n)
NextIndex(i, n) == JsMod(JsAdd(i, 1), n)

\* Value sanitisation of a range input: clamp into [0, max]; a value that is
\* no number becomes the default, the midpoint.
RangeValue(v, max) ==
    IF v = NaN THEN max \div 2 ELSE Max(0, Min(v, max))

\* displayFrame that never swaps the source.
DisplayFrame_NoSwap(index, paths, cache, src) == src

\* displayFrame: swap the source only if the frame at index is cached.
DisplayFrame(index, paths, cache, src) ==
    IF index \in 0 .. Len(paths) - 1 /\ paths[index + 1] \in cache
    THEN paths[index + 1]
    ELSE src

\* updateUI(index): the new <<currentIndex, scrubber.value, goesImage.src>>.
UpdateUI(index, paths, cache, max, src) ==
    [currentIndex |-> index,
     scrubberValue |-> RangeValue(index, max),
     goesImageSrc |-> DisplayFrame(index, paths, cache, src)]

\* ------------------------------------------------------ pointer geometry
\* Lengths and client coordinates are integers in units of 1/SubPixel pixel;
\* a quotient is kept as its numerator and denominator.
Px(n) == n * SubPixel
Frac(n, d) == [num |-> n, den |-> d]
Length(v) == Frac(v, SubPixel)
Rect(l, t, w, h) == [left |-> l, top |-> t, width |-> w, height |-> h]
NoRect == Rect(0, 0, 0 - 1, 0 - 1)     \* imageRectCache = null

\* The inline styles the interaction sets: kind "none" is the resting style,
\* "clamped" a scale with origin fractions <<x, y>>, "fixed" a scale with the
\* origin <<x, y>> in pixels, "lens" the lens at left/top <<x, y>> with
\* background-position <<bgX, bgY>>.
Visual(kind, x, y, bgX, bgY) ==
    [kind |-> kind, x |-> x, y |-> y, bgX |-> bgX, bgY |-> bgY]
NoVisual == Visual("none", Frac(0, 1), Frac(0, 1), Frac(0, 1), Frac(0, 1))

\* An event position together with the rectangle it was measured against.
At(pt, rect) == [x |-> pt.x, y |-> pt.y, rect |-> rect]
NoAt == At([x |-> 0, y |-> 0], NoRect)

\* clamp without its upper limit.
Clamp_NoUpper(value, min, max) == Max(min, value)

Clamp(value, min, max) == Max(min, Min(max, value))

\* applyZoom on one axis without step 3, the clamp into the control box.
OriginFraction_NoClamp(client, start, size) ==
    LET inset == Px(CONTROL_INSET_PX)
    IN Frac((client - start) - inset, Max(Px(1), size - 2 * inset))

\* applyZoom on one axis with a control box that is inset on one side only.
OriginFraction_OneInset(client, start, size) ==
    LET inset   == Px(CONTROL_INSET_PX)
        clamped == Max(inset, Min(client - start, size - inset))
    IN Frac(clamped - inset, Max(Px(1), size - inset))

\* applyZoom, steps 1 to 4 on one axis: the pointer clamped into the control
\* box, as a fraction of the control box.
OriginFraction(client, start, size) ==
    LET inset      == Px(CONTROL_INSET_PX)
        controlBox == Max(Px(1), size - 2 * inset)
        clamped    == Max(inset, Min(client - start, size - inset))
    IN Frac(clamped - inset, controlBox)

\* applyZoom(event) of the clamped variant on the cached rectangle.
ApplyZoom(v, rect, pt) ==
    IF rect = NoRect THEN v
    ELSE Visual("clamped", OriginFraction(pt.x, rect.left, rect.width),
                OriginFraction(pt.y, rect.top, rect.height), Frac(0, 1), Frac(0, 1))

\* applyZoomAt(e) of the fixed-point variant on the rectangle read now.
ApplyZoomAt(rect, pt) ==
    Visual("fixed", Length(pt.x - rect.left), Length(pt.y - rect.top),
           Frac(0, 1), Frac(0, 1))

\* The intrinsic size of the frames, in image pixels.
NaturalSize == [width |-> 800, height |-> 600]

\* img?.naturalWidth || goesImage.naturalWidth || 0 is not 0: the frame at
\* index is cached, or goesImage shows a frame.
HasNatural(index, paths, cache, src) ==
    \/ index \in 0 .. Len(paths) - 1 /\ paths[index + 1] \in cache
    \/ src # NoSrc

\* moveMagnifier, one axis of backgroundPosition, in pixels:
\* -(n * MAG_ZOOM - MAG_RADIUS) with n = rel * natural / size.
BackgroundPos(client, start, size, natural) ==
    LET rel == Clamp(client - start, 0, size)
    IN Frac(0 - (MAG_ZOOM.num * natural * rel - MAG_RADIUS * MAG_ZOOM.den * size),
            MAG_ZOOM.den * size)

\* moveMagnifier, one axis of the lens position: left or top.
LensPos(client, start, size, offset) ==
    Clamp((client - start) + Px(offset) - Px(MAG_RADIUS), 0, size - Px(MAG_DIAMETER))

\* moveMagnifier(clientX, clientY); the image fills its container.
MoveMagnifier(v, hasNatural, imgRect, containerRect, pt) ==
    IF ~hasNatural THEN v
    ELSE Visual("lens",
                Length(LensPos(pt.x, containerRect.left, containerRect.width, MAG_OFFSET.x)),
                Length(LensPos(pt.y, containerRect.top, containerRect.height, MAG_OFFSET.y)),
                BackgroundPos(pt.x, imgRect.left, imgRect.width, NaturalSize.width),
                BackgroundPos(pt.y, imgRect.top, imgRect.height, NaturalSize.height))

\* updateMagnifierSource: the lens takes the frame at currentIndex if there is one.
UpdateMagnifierSource(index, paths, lens) ==
    IF index \in 0 .. Len(paths) - 1 THEN paths[index + 1] ELSE lens

\* The rectangles the image is laid out in, and the one it starts in.
Layouts == {Rect(0, 0, Px(400), Px(300)), Rect(0, 0, Px(200), Px(150))}
InitialLayout == Rect(0, 0, Px(400), Px(300))

\* History variables. They record, they never steer: no action reads them.
Snapshot == [currentIndex |-> currentIndex, isPlaying |-> isPlaying]
NoHist == [prev |-> [currentIndex |-> 0, isPlaying |-> FALSE],
           event2 |-> "none",
           prev2 |-> [currentIndex |-> 0, isPlaying |-> FALSE]]
NoLoop == [start |-> 0, index |-> 0, advances |-> 0, exact |-> TRUE]

\* The state after the script has run, whichever interaction it carries.
InitPage ==
    /\ fetchState = "pending"
    /\ imagePaths = <<>>
    /\ imageCache = {}
    /\ loadStatus = <<>>
    /\ loadPromise = "none"
    /\ loadedCount = 0
    /\ loadingMessage = Msg("initial", 0)
    /\ loadingShown = TRUE
    /\ controlsShown = FALSE
    /\ scrubberShown = FALSE
    /\ scrubberMax = RANGE_DEFAULT_MAX
    /\ scrubberValue = 0
    /\ goesImageSrc = NoSrc
    /\ currentIndex = 0
    /\ isPlaying = TRUE
    /\ lastFrameTime = 0
    /\ scheduled = 0
    /\ idPending = FALSE
    /\ now = 0
    /\ lastEvent = "init"
    /\ synced = FALSE
    /\ gestureActive = FALSE
    /\ activePointerId = NoPointer
    /\ captured = {}
    /\ down = {}
    /\ imageRectCache = NoRect
    /\ visual = NoVisual
    /\ lensShown = FALSE
    /\ lensSrc = NoSrc
    /\ appliedAt = NoAt
    /\ fetchCount = <<>>
    /\ writeCount = <<>>
    /\ hist = NoHist
    /\ loop = NoLoop

\* docs/script.js, the magnifier lens variant, laid out at 400 x 300.
Init ==
    /\ InitPage
    /\ variant = "lens"
    /\ layout = InitialLayout

\* ------------------------------------------------------ playback engine
\* The player state the engine and updateUI work on, as one record.
Player ==
    [currentIndex |-> currentIndex, scrubberValue |-> scrubberValue,
     goesImageSrc |-> goesImageSrc, isPlaying |-> isPlaying,
     lastFrameTime |-> lastFrameTime, scheduled |-> scheduled,
     idPending |-> idPending,
     magnifierActive |-> (variant = "lens" /\ gestureActive), lensSrc |-> lensSrc]

SetPlayer(p) ==
    /\ currentIndex' = p.currentIndex
    /\ scrubberValue' = p.scrubberValue
    /\ goesImageSrc' = p.goesImageSrc
    /\ isPlaying' = p.isPlaying
    /\ lastFrameTime' = p.lastFrameTime
    /\ scheduled' = p.scheduled
    /\ idPending' = p.idPending
    /\ lensSrc' = p.lensSrc

\* requestAnimationFrame(runAnimationLoop), its handle stored in animationFrameId.
RequestFrame(p) == [p EXCEPT !.scheduled = @ + 1, !.idPending = TRUE]

\* cancelAnimationFrame(animationFrameId): removes the callback the handle
\* names if it is still pending; a stale or undefined handle cancels nothing.
CancelFrame(p) ==
    IF p.idPending
    THEN [p EXCEPT !.scheduled = @ - 1, !.idPending = FALSE]
    ELSE p

\* startAnimation that does not take the time.
StartAnimation_KeepTime(p, t) ==
    IF p.isPlaying THEN p
    ELSE RequestFrame([p EXCEPT !.isPlaying = TRUE])

StartAnimation(p, t) ==
    IF p.isPlaying THEN p
    ELSE RequestFrame([p EXCEPT !.isPlaying = TRUE, !.lastFrameTime = t])

StopAnimation(p) ==
    IF ~p.isPlaying THEN p
    ELSE CancelFrame([p EXCEPT !.isPlaying = FALSE])

\* togglePlayPause without the guard on an empty imagePaths.
TogglePlayPause_NoGuard(p, paths, t) ==
    IF p.isPlaying THEN StopAnimation(p) ELSE StartAnimation(p, t)

TogglePlayPause(p, paths, t) ==
    IF p.isPlaying THEN StopAnimation(p)
    ELSE IF Len(paths) > 0 THEN StartAnimation(p, t) ELSE p

\* updateUI that forgets the scrubber.
Sync_NoScrubber(p, index, paths, cache, max) ==
    [p EXCEPT !.currentIndex = index,
              !.goesImageSrc = DisplayFrame(index, paths, cache, p.goesImageSrc)]

\* displayFrame that leaves the lens alone.
DisplayFrameLens_Never(active, index, paths, cache, lens) == lens

\* displayFrame, the lens part: inside the branch taken when the frame at
\* index is cached, an active magnifier takes the frame at currentIndex,
\* which updateUI has just set to index.
DisplayFrameLens(active, index, paths, cache, lens) ==
    IF active /\ index \in 0 .. Len(paths) - 1 /\ paths[index + 1] \in cache
    THEN UpdateMagnifierSource(index, paths, lens)
    ELSE lens

\* updateUI(index) on the player record.
Sync(p, index, paths, cache, max) ==
    LET u == UpdateUI(index, paths, cache, max, p.goesImageSrc)
    IN [p EXCEPT !.currentIndex = u.currentIndex,
                 !.scrubberValue = u.scrubberValue,
                 !.goesImageSrc = u.goesImageSrc,
                 !.lensSrc = DisplayFrameLens(p.magnifierActive, index, paths, cache, @)]

PrevFrameOn(p, paths, cache, max) ==
    Sync(StopAnimation(p), PrevIndex(p.currentIndex, Len(paths)), paths, cache, max)

NextFrameOn(p, paths, cache, max) ==
    Sync(StopAnimation(p), NextIndex(p.currentIndex, Len(paths)), paths, cache, max)

\* handleScrubberInput: the control holds v when its change event fires.
SeekOn(p, v, paths, cache, max) ==
    Sync(StopAnimation(p), v, paths, cache, max)

\* A dwell threshold without the hold on the last frame.
FrameInterval_NoHold(i, n) == FRAME_INTERVAL_MS

\* The dwell threshold of the frame at index i.
FrameInterval(i, n) ==
    IF i = n - 1 THEN LAST_FRAME_HOLD_TIME_MS ELSE FRAME_INTERVAL_MS

\* TRUE iff a runAnimationLoop(ct) call on p advances the frame.
Advances(p, ct, n) ==
    p.isPlaying /\ ct - p.lastFrameTime >= FrameInterval(p.currentIndex, n)

\* One call runAnimationLoop(ct) of a callback that has just been taken off
\* the pending list.
RunAnimationLoop(p, ct, paths, cache, max) ==
    IF ~p.isPlaying THEN p
    ELSE LET q == IF Advances(p, ct, Len(paths))
                  THEN Sync([p EXCEPT !.lastFrameTime = ct],
                            NextIndex(p.currentIndex, Len(paths)), paths, cache, max)
                  ELSE p
         IN RequestFrame(q)

\* A display refresh at time ct: the k callbacks pending at its start run in
\* turn; the callbacks they request wait for the next refresh.
RECURSIVE RunCallbacks(_, _, _, _, _, _)
RunCallbacks(k, p, ct, paths, cache, max) ==
    IF k = 0 THEN p
    ELSE RunCallbacks(k - 1, RunAnimationLoop(p, ct, paths, cache, max),
                      ct, paths, cache, max)

Refresh(p, ct, paths, cache, max) ==
    RunCallbacks(p.scheduled, [p EXCEPT !.scheduled = 0, !.idPending = FALSE],
                 ct, paths, cache, max)

\* ------------------------------------------------------------- the loader
\* The identifiers a manifest lists and the positions that list one of them.
Listed(paths) == {paths[i] : i \in 1..Len(paths)}
Occurrences(paths, id) == Cardinality({i \in 1..Len(paths) : paths[i] = id})

\* imagePaths.map(path => ...): one new Image and one img.src = path for each
\* position of the list; the loads issued, counted by identifier.
IssueLoads(paths) == [id \in Listed(paths) |-> Occurrences(paths, id)]

\* An onload that writes every entry of the cache.
CacheWrite_All(w, id) == [j \in DOMAIN w |-> w[j] + 1]

\* imageCache[path] = img, counted by identifier.
CacheWrite(w, id) == [w EXCEPT ![id] = @ + 1]

AllLoaded(status) == \A i \in 1..Len(status) : status[i] = "loaded"

\* Resuming once every load has settled, whether it resolved or rejected.
LoadDone_Settled(status, promise) ==
    \A i \in 1..Len(status) : status[i] # "pending"

\* await Promise.all(loadPromises) resumes on the success branch: every load
\* has resolved and none rejected before.
LoadDone(status, promise) == AllLoaded(status) /\ promise = "pending"

\* The success branch without "isPlaying = false" before togglePlayPause.
LoadSuccess_NoReset(p, paths, cache, t) ==
    LET max == Len(paths) - 1
    IN TogglePlayPause(
           Sync([p EXCEPT !.scrubberValue = RangeValue(@, max)], 0, paths, cache, max),
           paths, t)

\* The continuation of loadAllImages after Promise.all resolved.
LoadSuccess(p, paths, cache, t) ==
    LET max == Len(paths) - 1
        q   == Sync([p EXCEPT !.scrubberValue = RangeValue(@, max)], 0, paths, cache, max)
    IN TogglePlayPause([q EXCEPT !.isPlaying = FALSE], paths, t)

\* fetchImages: the manifest arrives and decodes to m; loadAllImages issues one
\* Image load per position.
FetchOk(m) ==
    /\ fetchState = "pending"
    /\ fetchState' = "ok"
    /\ imagePaths' = m
    /\ loadStatus' = [i \in 1..Len(m) |-> "pending"]
    /\ loadPromise' = IF Len(m) > 0 THEN "pending" ELSE "none"
    /\ fetchCount' = IssueLoads(m)
    /\ writeCount' = [id \in Listed(m) |-> 0]
    /\ lastEvent' = "fetchOk"
    /\ synced' = FALSE
    /\ UNCHANGED <<imageCache, loadedCount, loadingMessage, loadingShown, controlsShown,
                   scrubberShown, scrubberMax, scrubberValue, goesImageSrc, currentIndex,
                   isPlaying, lastFrameTime, scheduled, idPending, now, lensSrc,
                   pointerVars>>

\* The catch branch of fetchImages without its message.
FetchFail_Silent ==
    /\ fetchState = "pending"
    /\ fetchState' = "failed"
    /\ lastEvent' = "fetchFail"
    /\ synced' = FALSE
    /\ UNCHANGED <<imagePaths, imageCache, loadStatus, loadPromise, loadedCount,
                   loadingMessage, loadingShown, controlsShown, scrubberShown,
                   scrubberMax, scrubberValue, goesImageSrc, currentIndex, isPlaying,
                   lastFrameTime, scheduled, idPending, now, lensSrc, pointerVars,
                   fetchCount, writeCount>>

\* fetchImages: fetch or response.json() rejects.
FetchFail ==
    /\ fetchState = "pending"
    /\ fetchState' = "failed"
    /\ loadingMessage' = Msg("dataError", 0)
    /\ lastEvent' = "fetchFail"
    /\ synced' = FALSE
    /\ UNCHANGED <<imagePaths, imageCache, loadStatus, loadPromise, loadedCount,
                   loadingShown, controlsShown, scrubberShown, scrubberMax, scrubberValue,
                   goesImageSrc, currentIndex, isPlaying, lastFrameTime, scheduled,
                   idPending, now, lensSrc, pointerVars, fetchCount, writeCount>>

\* img.onload of position i, and, when it was the last one outstanding, the
\* success branch of loadAllImages.
ImgLoad(i) ==
    /\ i \in 1..Len(loadStatus)
    /\ loadStatus[i] = "pending"
    /\ LET status == [loadStatus EXCEPT ![i] = "loaded"]
           cache  == imageCache \cup {imagePaths[i]}
           done   == LoadDone(status, loadPromise)
       IN /\ loadStatus' = status
          /\ imageCache' = cache
          /\ writeCount' = CacheWrite(writeCount, imagePaths[i])
          /\ loadedCount' = loadedCount + 1
          /\ loadingMessage' = Msg("progress", loadedCount + 1)
          /\ loadPromise' = IF done THEN "resolved" ELSE loadPromise
          /\ loadingShown' = IF done THEN FALSE ELSE loadingShown
          /\ controlsShown' = IF done THEN TRUE ELSE controlsShown
          /\ scrubberShown' = IF done THEN TRUE ELSE scrubberShown
          /\ scrubberMax' = IF done THEN N - 1 ELSE scrubberMax
          /\ SetPlayer(IF done THEN LoadSuccess(Player, imagePaths, cache, now) ELSE Player)
          /\ synced' = done
    /\ lastEvent' = "imgLoad"
    /\ UNCHANGED <<fetchState, imagePaths, now, pointerVars, fetchCount>>

\* img.onerror of position i, and, when it is the first rejection, the catch
\* branch of loadAllImages.
ImgError(i) ==
    /\ i \in 1..Len(loadStatus)
    /\ loadStatus[i] = "pending"
    /\ loadStatus' = [loadStatus EXCEPT ![i] = "failed"]
    /\ loadPromise' = IF loadPromise = "pending" THEN "rejected" ELSE loadPromise
    /\ loadingMessage' = IF loadPromise = "pending" THEN Msg("imgError", 0)
                         ELSE loadingMessage
    /\ lastEvent' = "imgError"
    /\ synced' = FALSE
    /\ UNCHANGED <<fetchState, imagePaths, imageCache, loadedCount, loadingShown,
                   controlsShown, scrubberShown, scrubberMax, scrubberValue, goesImageSrc,
                   currentIndex, isPlaying, lastFrameTime, scheduled, idPending, now,
                   lensSrc, pointerVars, fetchCount, writeCount>>

\* ------------------------------------------------------- control events
ClickPlayPause ==
    /\ SetPlayer(TogglePlayPause(Player, imagePaths, now))
    /\ lastEvent' = "toggle"
    /\ synced' = FALSE
    /\ UNCHANGED <<loadVars, now, pointerVars>>

ClickPrev ==
    /\ SetPlayer(PrevFrameOn(Player, imagePaths, imageCache, scrubberMax))
    /\ lastEvent' = "prevFrame"
    /\ synced' = TRUE
    /\ UNCHANGED <<loadVars, now, pointerVars>>

ClickNext ==
    /\ SetPlayer(NextFrameOn(Player, imagePaths, imageCache, scrubberMax))
    /\ lastEvent' = "nextFrame"
    /\ synced' = TRUE
    /\ UNCHANGED <<loadVars, now, pointerVars>>

\* The values a user can leave the scrubber at.
SeekInputs == 0 .. Min(scrubberMax, MaxFrames)

ScrubberChange(v) ==
    /\ SetPlayer(SeekOn(Player, v, imagePaths, imageCache, scrubberMax))
    /\ lastEvent' = "seek"
    /\ synced' = TRUE
    /\ UNCHANGED <<loadVars, now, pointerVars>>

\* startAnimation() called on its own with frames to play, in whatever state
\* the engine is in.
Play ==
    /\ N > 0
    /\ SetPlayer(StartAnimation(Player, now))
    /\ lastEvent' = "play"
    /\ synced' = FALSE
    /\ UNCHANGED <<loadVars, now, pointerVars>>

\* A display refresh d ms after the previous one.
Frame(d) ==
    /\ now + d <= MaxTime
    /\ now' = now + d
    /\ SetPlayer(Refresh(Player, now + d, imagePaths, imageCache, scrubberMax))
    /\ lastEvent' = "frame"
    /\ synced' = (scheduled > 0 /\ Advances(Player, now + d, N))
    /\ UNCHANGED <<loadVars, pointerVars>>

\* ------------------------------------------------------- pointer events
\* What no pointer handler touches.
playerVars == <<scrubberValue, goesImageSrc, currentIndex, isPlaying, lastFrameTime,
                scheduled, idPending, now, lastEvent, synced>>

\* The state the pointer handlers work on, as one record.
Gesture ==
    [active |-> gestureActive, pointerId |-> activePointerId, captured |-> captured,
     rect |-> imageRectCache, visual |-> visual, lensShown |-> lensShown,
     lensSrc |-> lensSrc, at |-> appliedAt]

SetGesture(g) ==
    /\ gestureActive' = g.active
    /\ activePointerId' = g.pointerId
    /\ captured' = g.captured
    /\ imageRectCache' = g.rect
    /\ visual' = g.visual
    /\ lensShown' = g.lensShown
    /\ lensSrc' = g.lensSrc
    /\ appliedAt' = g.at

TouchOrPen(id) == PointerType[id] \in {"touch", "pen"}

\* Clamped variant.
HandlePointerDown(g, id, live, pt) ==
    IF (~ALLOW_MOUSE_INPUT /\ PointerType[id] = "mouse") \/ ~IsPrimary[id] THEN g
    ELSE [g EXCEPT !.active = TRUE, !.rect = live, !.captured = @ \cup {id},
                   !.visual = ApplyZoom(@, live, pt), !.at = At(pt, live)]

HandlePointerMove(g, id, pt) ==
    IF ~g.active THEN g
    ELSE [g EXCEPT !.visual = ApplyZoom(@, g.rect, pt), !.at = At(pt, g.rect)]

\* resetZoom clears the inline styles: the resting style applies again.
HandlePointerUp(g, id) ==
    IF ~g.active THEN g
    ELSE [g EXCEPT !.active = FALSE, !.captured = @ \ {id}, !.rect = NoRect,
                   !.visual = NoVisual]

\* Fixed-point variant.
StartZoom(g, id, live, pt) ==
    IF g.active THEN g
    ELSE [g EXCEPT !.active = TRUE, !.pointerId = id, !.captured = @ \cup {id},
                   !.visual = ApplyZoomAt(live, pt), !.at = At(pt, live)]

MoveZoom(g, id, live, pt) ==
    IF ~g.active \/ id # g.pointerId THEN g
    ELSE [g EXCEPT !.visual = ApplyZoomAt(live, pt), !.at = At(pt, live)]

\* endZoom sets scale(1) and the default origin: the identity.
EndZoom(g, id) ==
    IF ~g.active \/ id # g.pointerId THEN g
    ELSE [g EXCEPT !.captured = @ \ {g.pointerId}, !.active = FALSE,
                   !.pointerId = NoPointer, !.visual = NoVisual]

\* Lens variant.
ShowMagnifier(g, id, index, paths, hasNatural, live, pt) ==
    IF g.active THEN g
    ELSE [g EXCEPT !.pointerId = id, !.active = TRUE, !.captured = @ \cup {id},
                   !.lensSrc = UpdateMagnifierSource(index, paths, @),
                   !.lensShown = TRUE,
                   !.visual = MoveMagnifier(@, hasNatural, live, live, pt),
                   !.at = IF hasNatural THEN At(pt, live) ELSE @]

UpdateMagnifier(g, id, hasNatural, live, pt) ==
    IF ~g.active \/ id # g.pointerId THEN g
    ELSE [g EXCEPT !.visual = MoveMagnifier(@, hasNatural, live, live, pt),
                   !.at = IF hasNatural THEN At(pt, live) ELSE @]

\* hideMagnifier(e): the lens is hidden where it stands.
HideMagnifier(g, id) ==
    IF ~g.active \/ id # g.pointerId THEN g
    ELSE [g EXCEPT !.captured = @ \ {g.pointerId}, !.pointerId = NoPointer,
                   !.active = FALSE, !.lensShown = FALSE]

\* The pointerdown listener of the page's variant.
OnPointerDown(g, id, pt) ==
    CASE variant = "clamped" -> HandlePointerDown(g, id, layout, pt)
      [] variant = "fixed" ->
            IF TouchOrPen(id) THEN StartZoom(g, id, layout, pt) ELSE g
      [] variant = "lens" ->
            IF TouchOrPen(id)
            THEN ShowMagnifier(g, id, currentIndex, imagePaths,
                               HasNatural(currentIndex, imagePaths, imageCache,
                                          goesImageSrc),
                               layout, pt)
            ELSE g

OnPointerMove(g, id, pt) ==
    CASE variant = "clamped" -> HandlePointerMove(g, id, pt)
      [] variant = "fixed" -> MoveZoom(g, id, layout, pt)
      [] variant = "lens" ->
            UpdateMagnifier(g, id,
                            HasNatural(currentIndex, imagePaths, imageCache, goesImageSrc),
                            layout, pt)

\* The pointerup and pointercancel listener.
OnPointerUp(g, id) ==
    CASE variant = "clamped" -> HandlePointerUp(g, id)
      [] variant = "fixed" -> EndZoom(g, id)
      [] variant = "lens" -> HideMagnifier(g, id)

\* A touch pointer is primary iff no other finger is down when it goes down.
CanGoDown(id) ==
    /\ id \notin down
    /\ PointerType[id] = "touch" =>
           (IsPrimary[id] <=> ~\E j \in down : PointerType[j] = "touch")

\* pointerdown of pointer id at client position pt.
PointerDown(id, pt) ==
    /\ CanGoDown(id)
    /\ down' = down \cup {id}
    /\ SetGesture(OnPointerDown(Gesture, id, pt))
    /\ UNCHANGED <<loadVars, playerVars, variant, layout>>

\* pointermove; a finger moves only while it is down.
PointerMove(id, pt) ==
    /\ PointerType[id] = "touch" => id \in down
    /\ SetGesture(OnPointerMove(Gesture, id, pt))
    /\ UNCHANGED <<loadVars, playerVars, variant, layout, down>>

\* The browser releases the capture of a pointer after its pointerup or
\* pointercancel has been dispatched.
ImplicitRelease(g, id) == [g EXCEPT !.captured = @ \ {id}]

PointerUp(id) ==
    /\ id \in down
    /\ down' = down \ {id}
    /\ SetGesture(ImplicitRelease(OnPointerUp(Gesture, id), id))
    /\ UNCHANGED <<loadVars, playerVars, variant, layout>>

PointerCancel(id) ==
    /\ id \in down
    /\ down' = down \ {id}
    /\ SetGesture(ImplicitRelease(OnPointerUp(Gesture, id), id))
    /\ UNCHANGED <<loadVars, playerVars, variant, layout>>

\* pointerleave, which only the lens variant listens to; a captured pointer
\* does not leave its target.
PointerLeave(id) ==
    /\ variant = "lens"
    /\ id \notin captured
    /\ SetGesture(HideMagnifier(Gesture, id))
    /\ UNCHANGED <<loadVars, playerVars, variant, layout, down>>

\* The page is laid out anew: getBoundingClientRect() returns r from now on.
Resize(r) ==
    /\ r # layout
    /\ layout' = r
    /\ UNCHANGED <<loadVars, playerVars, variant, gestureActive, activePointerId,
                   captured, down, imageRectCache, visual, lensShown, lensSrc,
                   appliedAt>>

\* The client positions the pointer events of the interaction model carry:
\* the top-left corner and the centre of the initial layout.
PointerPoints == {[x |-> 0, y |-> 0], [x |-> Px(200), y |-> Px(150)]}

PointerDownStep   == \E id \in PointerIds, pt \in PointerPoints : PointerDown(id, pt)
PointerMoveStep   == \E id \in PointerIds, pt \in PointerPoints : PointerMove(id, pt)
PointerUpStep     == \E id \in PointerIds : PointerUp(id)
PointerCancelStep == \E id \in PointerIds : PointerCancel(id)
PointerLeaveStep  == \E id \in PointerIds : PointerLeave(id)
ResizeStep        == \E r \in Layouts : Resize(r)

\* One callback of the page; the history variables are left for the
\* specification to record.
FetchOkStep      == \E m \in Manifests : FetchOk(m)
FetchFailStep    == FetchFail
ImgLoadStep      == \E i \in 1..MaxFrames + 1 : ImgLoad(i)
ImgErrorStep     == \E i \in 1..MaxFrames + 1 : ImgError(i)
ScrubberStep     == \E v \in SeekInputs : ScrubberChange(v)
FrameStep        == \E d \in TickDeltas : Frame(d)

NoRecord == UNCHANGED <<hist, loop>>

Next ==
    \/ FetchOkStep /\ NoRecord
    \/ FetchFailStep /\ NoRecord
    \/ ImgLoadStep /\ NoRecord
    \/ ImgErrorStep /\ NoRecord
    \/ ClickPlayPause /\ NoRecord
    \/ ClickPrev /\ NoRecord
    \/ ClickNext /\ NoRecord
    \/ ScrubberStep /\ NoRecord
    \/ FrameStep /\ NoRecord

Spec == Init /\ [][Next]_vars

\* ------------------------------------------------- recorded histories
ButtonEvents == {"toggle", "prevFrame", "nextFrame"}

\* The last two button clicks: hist.prev is the state before the last click,
\* hist.event2 the click before it and hist.prev2 the state before that one.
\* Only runs of button clicks are recorded.
RecordHist ==
    /\ hist' = IF lastEvent' \notin ButtonEvents THEN NoHist
               ELSE IF lastEvent \notin ButtonEvents
               THEN [NoHist EXCEPT !.prev = Snapshot]
               ELSE [prev |-> Snapshot, event2 |-> lastEvent, prev2 |-> hist.prev]
    /\ UNCHANGED loop

NextHist ==
    \/ FetchOkStep /\ RecordHist
    \/ FetchFailStep /\ RecordHist
    \/ ImgLoadStep /\ RecordHist
    \/ ImgErrorStep /\ RecordHist
    \/ ClickPlayPause /\ RecordHist
    \/ ClickPrev /\ RecordHist
    \/ ClickNext /\ RecordHist
    \/ ScrubberStep /\ RecordHist
    \/ FrameStep /\ RecordHist

SpecHist == Init /\ [][NextHist]_vars

\* The pointer interaction of each of the three variants, with the loader.
InitPointer ==
    /\ InitPage
    /\ variant \in Variants
    /\ layout = InitialLayout

NextPointer ==
    \/ FetchOkStep /\ NoRecord
    \/ FetchFailStep /\ NoRecord
    \/ ImgLoadStep /\ NoRecord
    \/ ImgErrorStep /\ NoRecord
    \/ PointerDownStep /\ NoRecord
    \/ PointerMoveStep /\ NoRecord
    \/ PointerUpStep /\ NoRecord
    \/ PointerCancelStep /\ NoRecord
    \/ PointerLeaveStep /\ NoRecord
    \/ ResizeStep /\ NoRecord

SpecPointer == InitPointer /\ [][NextPointer]_vars

\* The geometry of the clamped zoom and of the lens: one finger on a page
\* laid out in one of a range of rectangles, from smaller than the control
\* box and the lens up to 400 x 300, among them extents a fraction of a pixel
\* above twice the inset.
GeomExtents ==
    LET twice == 2 * Px(CONTROL_INSET_PX)
        lens  == Px(MAG_DIAMETER)
    IN {<<Px(400), Px(300)>>, <<Px(100), Px(100)>>, <<twice, twice>>,
        <<twice + 1, twice + 1>>, <<twice + Px(1), twice + Px(1)>>,
        <<lens, lens + Px(20)>>}
GeomLayouts == {Rect(Px(20), Px(10), e[1], e[2]) : e \in GeomExtents}

\* Positions along one axis, relative to the rectangle's start: before it, on
\* its edges, inside the inset, on the control box's edges, after it, and the
\* middle where the grid has it.
GeomOffsets(size) ==
    {0 - Px(10), 0, Px(40), Px(CONTROL_INSET_PX), size - Px(CONTROL_INSET_PX),
     size, size + Px(10)}
        \cup (IF size % 2 = 0 THEN {size \div 2} ELSE {})
GeomPoints(rect) ==
    {[x |-> rect.left + dx, y |-> rect.top + dy] :
        dx \in GeomOffsets(rect.width), dy \in GeomOffsets(rect.height)}
GeomManifest == <<1>>
FirstFinger == {id \in PointerIds : PointerType[id] = "touch" /\ IsPrimary[id]}

InitGeom ==
    /\ InitPage
    /\ variant \in {"clamped", "lens"}
    /\ layout \in GeomLayouts

GeomFetchStep == FetchOk(GeomManifest)
GeomDownStep  == \E id \in FirstFinger, pt \in GeomPoints(layout) : PointerDown(id, pt)
GeomMoveStep  == \E id \in FirstFinger, pt \in GeomPoints(layout) : PointerMove(id, pt)
GeomUpStep    == \E id \in FirstFinger : PointerUp(id)

NextGeom ==
    \/ GeomFetchStep /\ NoRecord
    \/ ImgLoadStep /\ NoRecord
    \/ GeomDownStep /\ NoRecord
    \/ GeomMoveStep /\ NoRecord
    \/ GeomUpStep /\ NoRecord

SpecGeom == InitGeom /\ [][NextGeom]_vars

\* docs/script.js with a manifest and images that arrive: the loader, the
\* controls and the refreshes together with the magnifier of one finger held
\* at the centre of the image.
LensPoints == {[x |-> Px(200), y |-> Px(150)]}
LensDownStep == \E id \in FirstFinger, pt \in LensPoints : PointerDown(id, pt)
LensMoveStep == \E id \in FirstFinger, pt \in LensPoints : PointerMove(id, pt)
LensUpStep   == \E id \in FirstFinger : PointerUp(id)

NextLens ==
    \/ FetchOkStep /\ NoRecord
    \/ ImgLoadStep /\ NoRecord
    \/ ClickPlayPause /\ NoRecord
    \/ ClickPrev /\ NoRecord
    \/ ClickNext /\ NoRecord
    \/ ScrubberStep /\ NoRecord
    \/ FrameStep /\ NoRecord
    \/ LensDownStep /\ NoRecord
    \/ LensMoveStep /\ NoRecord
    \/ LensUpStep /\ NoRecord

SpecLens == Init /\ [][NextLens]_vars

\* The page over unbounded time. runAnimationLoop reads the clock only through
\* currentTime - lastFrameTime, and only while isPlaying, after startAnimation
\* has set lastFrameTime; so before each refresh the origin of the clock is
\* moved to lastFrameTime while the loop runs (isPlaying with a callback
\* pending) and to the present otherwise, where lastFrameTime, which will be
\* set anew before it is read, is set to the origin too. The timestamps then
\* stay below one hold plus two refresh spacings and the loop can run for ever.
FrameLive(d) ==
    LET running == isPlaying /\ scheduled > 0
        origin  == IF running THEN lastFrameTime ELSE now
        p       == [Player EXCEPT !.lastFrameTime = 0]
        ct      == (now - origin) + d
    IN /\ now' = ct
       /\ SetPlayer(Refresh(p, ct, imagePaths, imageCache, scrubberMax))
       /\ lastEvent' = "frame"
       /\ synced' = (scheduled > 0 /\ Advances(p, ct, N))
       /\ UNCHANGED <<loadVars, pointerVars>>

FrameLiveStep == \E d \in TickDeltas : FrameLive(d)

NextLive ==
    \/ FetchOkStep /\ NoRecord
    \/ FetchFailStep /\ NoRecord
    \/ ImgLoadStep /\ NoRecord
    \/ ImgErrorStep /\ NoRecord
    \/ ClickPlayPause /\ NoRecord
    \/ ClickPrev /\ NoRecord
    \/ ClickNext /\ NoRecord
    \/ ScrubberStep /\ NoRecord
    \/ FrameLiveStep /\ NoRecord

\* The browser keeps refreshing the display: a refresh, which runs every
\* pending requestAnimationFrame callback, always comes.
SpecLive == Init /\ [][NextLive]_vars /\ WF_vars(FrameLiveStep /\ NoRecord)

\* startAnimation got past its guard in this step.
Started ==
    isPlaying' /\ (~isPlaying \/ (lastEvent' = "imgLoad" /\ synced'))

\* The run of the animation loop since startAnimation: when and at which frame
\* it started, the advances made, and whether each advance came on a refresh
\* at exactly the dwell threshold of its frame.
RecordLoop ==
    /\ loop' = IF Started
               THEN [start |-> now', index |-> currentIndex', advances |-> 0,
                     exact |-> TRUE]
               ELSE IF ~isPlaying' THEN NoLoop
               ELSE IF lastEvent' = "frame" /\ synced'
               THEN [loop EXCEPT !.advances = @ + 1,
                                 !.exact = @ /\ (now' - lastFrameTime
                                                 = FrameInterval(currentIndex, N))]
               ELSE loop
    /\ UNCHANGED hist

NextLoop ==
    \/ FetchOkStep /\ RecordLoop
    \/ FetchFailStep /\ RecordLoop
    \/ ImgLoadStep /\ RecordLoop
    \/ ImgErrorStep /\ RecordLoop
    \/ ClickPlayPause /\ RecordLoop
    \/ ClickPrev /\ RecordLoop
    \/ ClickNext /\ RecordLoop
    \/ ScrubberStep /\ RecordLoop
    \/ FrameStep /\ RecordLoop

SpecLoop == Init /\ [][NextLoop]_vars

\* The page with a manifest and images that arrive and with startAnimation
\* also called on its own.
PlayStep == Play

NextPlay ==
    \/ FetchOkStep /\ RecordLoop
    \/ ImgLoadStep /\ RecordLoop
    \/ ClickPlayPause /\ RecordLoop
    \/ ClickPrev /\ RecordLoop
    \/ ClickNext /\ RecordLoop
    \/ ScrubberStep /\ RecordLoop
    \/ FrameStep /\ RecordLoop
    \/ PlayStep /\ RecordLoop

SpecPlay == Init /\ [][NextPlay]_vars

\* ------------------------------------------------------------ properties
InRange(i) == i \in 0 .. N - 1
AnyFailed == \E i \in 1..Len(loadStatus) : loadStatus[i] = "failed"
\* The time of one full loop: N - 1 frame intervals and the hold of the last frame.
Cycle(n) == (n - 1) * FRAME_INTERVAL_MS + LAST_FRAME_HOLD_TIME_MS

\* C1: once the load has completed, the scrubber's value equals currentIndex in
\* every state, whatever steps, seeks, toggles and ticks follow.
C1_ScrubberMatchesIndex ==
    loadPromise = "resolved" => scrubberValue = currentIndex

\* A tick-driven advance to frame 1 after load completion, scrubber at 1.
C1_Witness ==
    /\ loadPromise = "resolved"
    /\ lastEvent = "frame" /\ synced
    /\ currentIndex = 1 /\ scrubberValue = 1

\* C2 (as stated): after every updateUI(index) with index in [0, N), the
\* displayed source is the image of imagePaths[currentIndex].
C2_DisplayedAfterEverySync ==
    (synced /\ InRange(currentIndex)) => goesImageSrc = imagePaths[currentIndex + 1]

\* C2 (amended): after load completion the displayed source is always the
\* image of imagePaths[currentIndex]; before it, an updateUI(index) displays
\* the frame at index whenever that frame is cached (and otherwise leaves the
\* displayed source as it was).
C2_DisplayedWhenCached ==
    /\ loadPromise = "resolved" =>
           (InRange(currentIndex) /\ goesImageSrc = imagePaths[currentIndex + 1])
    /\ (synced /\ InRange(currentIndex) /\ imagePaths[currentIndex + 1] \in imageCache) =>
           goesImageSrc = imagePaths[currentIndex + 1]

\* A step to the second of two different frames after load completion.
C2_Witness ==
    /\ loadPromise = "resolved"
    /\ lastEvent = "nextFrame" /\ synced
    /\ N = 2 /\ imagePaths[1] # imagePaths[2]
    /\ currentIndex = 1 /\ goesImageSrc = imagePaths[2]

\* C3: right after prevFrame, nextFrame or handleScrubberInput the engine is
\* stopped and no runAnimationLoop callback is pending.
C3_StepsForceStopped ==
    lastEvent \in {"prevFrame", "nextFrame", "seek"} => (~isPlaying /\ scheduled = 0)

\* C4: no runAnimationLoop callback fires while the engine is stopped: a
\* display refresh in a stopped state finds no callback pending.
C4_NoTickAfterPause ==
    [][(~isPlaying /\ now' # now) => scheduled = 0]_vars

\* C5 (as stated): one full loop time after the animation started at a frame
\* in [0, N), and still playing, the index has advanced exactly N times and is
\* back at the frame it started from.
C5_LoopClosesInCycleTime ==
    (isPlaying /\ scheduled > 0 /\ N > 0 /\ InRange(loop.index)
       /\ now - loop.start = Cycle(N))
    => (loop.advances = N /\ currentIndex = loop.index)

\* C5 (amended): the same, provided every advance so far came on a refresh at
\* exactly the dwell threshold of its frame.
C5_LoopClosesWithExactTicks ==
    (isPlaying /\ scheduled > 0 /\ N > 0 /\ InRange(loop.index) /\ loop.exact
       /\ now - loop.start = Cycle(N))
    => (loop.advances = N /\ currentIndex = loop.index)

\* A full loop over two frames, each advance on time.
C5_Witness ==
    /\ isPlaying /\ scheduled > 0 /\ N = 2 /\ loop.exact
    /\ now - loop.start = Cycle(2)
    /\ loop.advances = 2 /\ currentIndex = loop.index

C7_DoubleToggleRestores ==
    (lastEvent = "toggle" /\ hist.event2 = "toggle") => isPlaying = hist.prev2.isPlaying

\* C8: until the load has completed the engine is stopped, no callback is
\* pending and no tick advances the index.
C8_StoppedUntilLoaded ==
    loadPromise # "resolved" =>
        (~isPlaying /\ scheduled = 0 /\ ~(lastEvent = "frame" /\ synced))

\* C9: the image, the controls and the scrubber are revealed (and the loading
\* message hidden) only when every image load succeeded; once a load has
\* failed Promise.all is rejected and nothing is revealed.
C9_AllOrNothing ==
    /\ (controlsShown \/ scrubberShown \/ ~loadingShown) =>
           (N > 0 /\ AllLoaded(loadStatus))
    /\ AnyFailed =>
           (loadPromise = "rejected" /\ ~controlsShown /\ ~scrubberShown /\ loadingShown)

\* The first image failed, then the last outstanding sibling loaded.
C9_Witness ==
    /\ N = 2 /\ loadStatus = <<"failed", "loaded">>
    /\ lastEvent = "imgLoad"
    /\ ~controlsShown /\ ~scrubberShown

\* C10: once loadAllImages has caught the rejection, the loading message is
\* the image-load error message.
C10_ErrorMessageStays ==
    loadPromise = "rejected" => loadingMessage.kind = "imgError"

\* C11: in the state the last img.onload leaves when it completes the load,
\* the image, the controls and the scrubber are revealed, scrubber.max is
\* N - 1, currentIndex is 0 with frame 0 displayed, and the engine is playing
\* with a runAnimationLoop callback pending.
C11_LoadSuccessState ==
    (lastEvent = "imgLoad" /\ loadPromise = "resolved") =>
        /\ controlsShown /\ scrubberShown /\ ~loadingShown
        /\ N > 0 /\ scrubberMax = N - 1
        /\ currentIndex = 0 /\ scrubberValue = 0 /\ goesImageSrc = imagePaths[1]
        /\ isPlaying /\ scheduled > 0 /\ idPending /\ lastFrameTime = now

\* The load of two frames completes after the animation was already started
\* by clicks made while loading.
C11_Witness ==
    /\ lastEvent = "imgLoad" /\ loadPromise = "resolved"
    /\ N = 2 /\ scheduled = 2 /\ now > 0
    /\ isPlaying /\ currentIndex = 0

\* C12: once the manifest fetch has failed, the data error message is shown,
\* no image load has been issued, the frame sequence is empty, no
\* runAnimationLoop callback is ever pending, and no later step leaves the
\* failed state or turns isPlaying on.
C12_ManifestFailureTerminal ==
    /\ [](fetchState = "failed" =>
            /\ loadingMessage = Msg("dataError", 0)
            /\ loadingShown /\ ~controlsShown /\ ~scrubberShown
            /\ N = 0 /\ loadStatus = <<>> /\ loadPromise = "none" /\ imageCache = {}
            /\ scheduled = 0)
    /\ [][fetchState = "failed" =>
            /\ fetchState' = "failed"
            /\ isPlaying' => isPlaying]_vars

\* After the failure, togglePlayPause was clicked while stopped and nothing started.
C12_Witness ==
    /\ fetchState = "failed"
    /\ lastEvent = "toggle" /\ hist.event2 = "toggle"
    /\ ~hist.prev.isPlaying /\ ~isPlaying /\ scheduled = 0

\* C13: with an empty manifest no image load is issued, the loading message
\* stays the initial one and stays shown, no runAnimationLoop callback is
\* ever pending, and no later step loads anything or turns isPlaying on.
C13_EmptyManifestNoOp ==
    /\ []((fetchState = "ok" /\ N = 0) =>
            /\ loadStatus = <<>> /\ loadPromise = "none" /\ imageCache = {}
            /\ loadingMessage = Msg("initial", 0)
            /\ loadingShown /\ ~controlsShown /\ ~scrubberShown
            /\ scheduled = 0)
    /\ [][(fetchState = "ok" /\ N = 0) =>
            /\ fetchState' = "ok" /\ N' = 0
            /\ isPlaying' => isPlaying]_vars

\* With the empty manifest in, togglePlayPause was clicked while stopped and
\* nothing started.
C13_Witness ==
    /\ fetchState = "ok" /\ N = 0
    /\ lastEvent = "toggle" /\ hist.event2 = "toggle"
    /\ ~hist.prev.isPlaying /\ ~isPlaying /\ scheduled = 0

\* C14: at most one pointer gesture is active at a time: in each of the three
\* variants, a pointerdown of another pointer while a gesture is active leaves
\* the gesture, the captured pointer ids, the stored pointer id and the
\* rectangle taken at its start as they are.
C14_OneGestureAtATime ==
    [][\A id \in PointerIds :
          (gestureActive /\ \E pt \in PointerPoints : PointerDown(id, pt))
              => UNCHANGED <<gestureActive, activePointerId, captured, imageRectCache>>]_vars

\* The transform is back at the identity: the zoom styles are reset, or the
\* lens is hidden.
AtRest == IF variant = "lens" THEN ~lensShown ELSE visual = NoVisual

\* C15: a pointerup or pointercancel of the captured pointer ends the active
\* gesture, releases the capture, clears the stored rectangle and puts the
\* transform back at the identity; a pointerup or pointercancel of any other
\* pointer leaves the gesture, its capture and its transform unchanged.
C15_EndOnlyByCapturedPointer ==
    [][\A id \in PointerIds :
          (gestureActive /\ (PointerUp(id) \/ PointerCancel(id))) =>
              IF id \in captured
              THEN /\ ~gestureActive'
                   /\ id \notin captured'
                   /\ imageRectCache' = NoRect
                   /\ AtRest'
              ELSE UNCHANGED <<gestureActive, activePointerId, captured,
                               imageRectCache, visual, lensShown>>]_vars

\* The clamped zoom is applied: visual was computed by applyZoom from the
\* event position and rectangle in appliedAt.
Zoomed == variant = "clamped" /\ visual.kind = "clamped"
RelX == appliedAt.x - appliedAt.rect.left
RelY == appliedAt.y - appliedAt.rect.top
InUnit(f) == 0 <= f.num /\ f.num <= f.den
Pinned(f) == f.num = 0 \/ f.num = f.den
Half(f) == 2 * f.num = f.den
OutsideBox(rel, size) ==
    rel < Px(CONTROL_INSET_PX) \/ rel > size - Px(CONTROL_INSET_PX)
\* The extent leaves a control box of at least one pixel, or none at all.
WholeBox(size) ==
    size <= 2 * Px(CONTROL_INSET_PX) \/ size >= 2 * Px(CONTROL_INSET_PX) + Px(1)
CornerOf400x300 ==
    /\ appliedAt.rect.width = Px(400) /\ appliedAt.rect.height = Px(300)
    /\ RelX = 0 /\ RelY = 0

\* C16 as stated: for every pointer position and rectangle the origin
\* fractions lie in [0, 1], a position outside the control box gives a
\* fraction of exactly 0 or 1, and the top-left corner of a 400 x 300
\* rectangle gives (0, 0).
C16_OriginPinned ==
    Zoomed =>
        /\ InUnit(visual.x) /\ InUnit(visual.y)
        /\ OutsideBox(RelX, appliedAt.rect.width) => Pinned(visual.x)
        /\ OutsideBox(RelY, appliedAt.rect.height) => Pinned(visual.y)
        /\ CornerOf400x300 => (visual.x.num = 0 /\ visual.y.num = 0)

\* C16 amended: the origin fractions always lie in [0, 1]; a position outside
\* the control box gives exactly 0 or 1 on every axis whose extent is at most
\* twice the inset or at least twice the inset plus one pixel; the top-left
\* corner of a 400 x 300 rectangle gives (0, 0).
C16_OriginPinnedOnWholeBox ==
    Zoomed =>
        /\ InUnit(visual.x) /\ InUnit(visual.y)
        /\ (OutsideBox(RelX, appliedAt.rect.width) /\ WholeBox(appliedAt.rect.width))
              => Pinned(visual.x)
        /\ (OutsideBox(RelY, appliedAt.rect.height) /\ WholeBox(appliedAt.rect.height))
              => Pinned(visual.y)
        /\ CornerOf400x300 => (visual.x.num = 0 /\ visual.y.num = 0)

\* The zoom applied from the top-left corner of the 400 x 300 rectangle.
C16_Witness ==
    Zoomed /\ gestureActive /\ CornerOf400x300 /\ visual.x.num = 0 /\ visual.y.num = 0

\* C17 as stated: a pointer at the exact centre of the rectangle gives the
\* origin (0.5, 0.5), whatever the rectangle's size.
C17_CentreGivesHalf ==
    (Zoomed /\ 2 * RelX = appliedAt.rect.width /\ 2 * RelY = appliedAt.rect.height)
        => (Half(visual.x) /\ Half(visual.y))

\* C17 amended: a pointer at the centre of the rectangle gives the fraction
\* 0.5 on every axis whose extent is at least twice the inset plus one pixel.
C17_CentreGivesHalfOnWideBox ==
    Zoomed =>
        /\ (2 * RelX = appliedAt.rect.width
               /\ appliedAt.rect.width >= 2 * Px(CONTROL_INSET_PX) + Px(1))
              => Half(visual.x)
        /\ (2 * RelY = appliedAt.rect.height
               /\ appliedAt.rect.height >= 2 * Px(CONTROL_INSET_PX) + Px(1))
              => Half(visual.y)

\* The zoom applied from the centre of the 400 x 300 rectangle.
C17_Witness ==
    /\ Zoomed /\ gestureActive
    /\ appliedAt.rect.width = Px(400) /\ appliedAt.rect.height = Px(300)
    /\ 2 * RelX = appliedAt.rect.width /\ 2 * RelY = appliedAt.rect.height
    /\ Half(visual.x) /\ Half(visual.y)

\* moveMagnifier has positioned the lens from the event position and
\* container rectangle in appliedAt.
LensPlaced == variant = "lens" /\ visual.kind = "lens"
InsideContainer(pos, size) == 0 <= pos /\ pos + Px(MAG_DIAMETER) <= size

MagnifierActive == variant = "lens" /\ gestureActive

\* C19 as stated: in every state with the magnifier active, the lens shows
\* the frame at currentIndex.
C19_LensShowsCurrentFrame ==
    (MagnifierActive /\ InRange(currentIndex)) => lensSrc = imagePaths[currentIndex + 1]

\* C19 amended: in every state after load completion with the magnifier
\* active, the lens shows the frame at currentIndex, which is the frame the
\* main image shows.
C19_LensShowsCurrentFrameOnceLoaded ==
    (MagnifierActive /\ loadPromise = "resolved") =>
        /\ InRange(currentIndex)
        /\ lensSrc = imagePaths[currentIndex + 1]
        /\ lensSrc = goesImageSrc

\* A refresh has advanced the animation to the second of two different
\* frames under a magnifier that was put down before the load completed (the
\* lens was never positioned), and the lens shows that frame.
C19_Witness ==
    /\ MagnifierActive /\ loadPromise = "resolved"
    /\ visual.kind = "none"
    /\ lastEvent = "frame" /\ synced
    /\ N = 2 /\ imagePaths[1] # imagePaths[2]
    /\ currentIndex = 1 /\ lensSrc = imagePaths[2]

\* Frame i is the current frame and is the one shown.
Displayed(i) == N > i /\ currentIndex = i /\ goesImageSrc = imagePaths[i + 1]

\* C20: if from some refresh on the engine stays playing with a callback
\* pending and N > 0, then under fair refreshes every frame index in [0, N)
\* is displayed again and again.
C20_LoopsForever ==
    \A i \in 0 .. MaxFrames - 1 :
        <>[](isPlaying /\ scheduled > 0 /\ N > i) => []<>Displayed(i)

\* C21: a display refresh that finds the engine playing with a callback pending
\* compares the time since lastFrameTime with the dwell threshold of the
\* current frame (the hold on the last frame, 1000/FPS otherwise): at or past
\* the threshold it sets lastFrameTime to the refresh's timestamp and moves
\* currentIndex to (currentIndex + 1) mod N, one frame on however late the
\* refresh is; before the threshold it leaves both as they are.
C21_TickAdvancesByOne ==
    [][(now' # now /\ isPlaying /\ scheduled > 0) =>
          IF now' - lastFrameTime >=
                 (IF currentIndex = N - 1 THEN LAST_FRAME_HOLD_TIME_MS
                  ELSE 1000 \div ANIMATION_FPS)
          THEN /\ lastFrameTime' = now'
               /\ currentIndex' \in 0 .. N - 1
               /\ currentIndex' = (currentIndex + 1) % N
          ELSE UNCHANGED <<currentIndex, lastFrameTime>>]_vars

\* C22: startAnimation called while the engine is playing leaves isPlaying,
\* lastFrameTime and the pending callbacks as they are; called while it is
\* stopped it sets isPlaying, sets lastFrameTime to the current time and
\* requests one callback, so that the first advance a refresh makes after
\* the start comes no earlier than the start time plus the dwell threshold of
\* the frame that was current at the start.
C22_PlayResumesWithFullDwell ==
    [][/\ Play =>
            IF isPlaying
            THEN UNCHANGED <<isPlaying, lastFrameTime, scheduled, idPending>>
            ELSE /\ isPlaying' /\ lastFrameTime' = now
                 /\ scheduled' = scheduled + 1 /\ idPending'
       /\ (lastEvent' = "frame" /\ synced' /\ isPlaying /\ loop.advances = 0) =>
            /\ currentIndex = loop.index
            /\ now' - loop.start >=
                   (IF loop.index = N - 1 THEN LAST_FRAME_HOLD_TIME_MS
                    ELSE 1000 \div ANIMATION_FPS)]_vars

\* startAnimation has just resumed a loaded animation that was paused, later
\* than the page was opened: the run starts now with one callback pending.
C22_Witness ==
    /\ lastEvent = "play" /\ loadPromise = "resolved"
    /\ isPlaying /\ scheduled = 1 /\ idPending
    /\ now > 0 /\ lastFrameTime = now
    /\ loop.start = now /\ loop.advances = 0

\* C23: in every state with N > 0, whatever loader, control and refresh steps
\* led to it, currentIndex is an integer of [0, N).
C23_IndexInRange ==
    N > 0 => currentIndex \in 0 .. N - 1

\* C24: with N = 0 (no manifest yet, an empty one, or a failed fetch) a click
\* on previous-frame or next-frame leaves currentIndex at the integer it was.
C24_StepKeepsIndexOnEmpty ==
    [][(N = 0 /\ (ClickPrev \/ ClickNext)) =>
          (currentIndex' = currentIndex /\ currentIndex' # NaN)]_vars

\* The positions of the manifest that list id, and those whose onload has run.
PositionsOf(id) == {i \in DOMAIN loadStatus : imagePaths[i] = id}
LoadedPositionsOf(id) == {i \in PositionsOf(id) : loadStatus[i] = "loaded"}

\* C25 as stated: during a load each identifier of the manifest is fetched
\* exactly once and its cache entry is written at most once, whatever the
\* manifest, also one that lists an identifier at several positions.
C25_WriteOnce ==
    \A id \in DOMAIN fetchCount : fetchCount[id] = 1 /\ writeCount[id] <= 1

\* C25 amended: during a load each position of the manifest is fetched
\* exactly once and writes the cache entry of its identifier at most once: an
\* identifier is fetched once per position that lists it and its entry is
\* written once per such position whose image has loaded, so exactly once
\* and at most once when no identifier is listed twice.
C25_WriteOncePerPosition ==
    /\ DOMAIN fetchCount = {imagePaths[i] : i \in DOMAIN loadStatus}
    /\ DOMAIN writeCount = DOMAIN fetchCount
    /\ \A id \in DOMAIN fetchCount :
          /\ fetchCount[id] = Cardinality(PositionsOf(id))
          /\ writeCount[id] = Cardinality(LoadedPositionsOf(id))
          /\ id \in imageCache <=> writeCount[id] > 0

\* A manifest that lists one identifier twice has loaded: two loads were
\* issued for it and its entry was written twice.
C25_Witness ==
    /\ loadPromise = "resolved" /\ N = 2 /\ imagePaths[1] = imagePaths[2]
    /\ fetchCount[imagePaths[1]] = 2 /\ writeCount[imagePaths[1]] = 2

\* C26: the rectangle taken at pointer-down stays the geometry of the whole
\* gesture: in each of the three variants, while a gesture stays active no
\* pointer event and no layout change makes the transform be computed from
\* another rectangle than the one it was computed from before.
C26_GeometryFrozen ==
    [][(gestureActive /\ gestureActive' /\ appliedAt.rect # NoRect) =>
          appliedAt'.rect = appliedAt.rect]_vars

\* C27: in each of the three variants a pointermove changes the transform only
\* while a gesture is active and the moving pointer is the captured one; a
\* pointermove while idle, or of another pointer, leaves the transform and
\* the gesture state as they are.
C27_MoveOnlyByCapturedPointer ==
    [][\A id \in PointerIds :
          ((\E pt \in PointerPoints : PointerMove(id, pt))
              /\ ~(gestureActive /\ id \in captured))
          => UNCHANGED <<visual, lensShown, gestureActive, activePointerId, captured,
                         imageRectCache>>]_vars

\* C28: in every state, whatever toggles, steps, seeks, refreshes and load
\* completion led to it and whether or not they came before the load
\* completed, a runAnimationLoop callback is pending iff isPlaying, and never
\* more than one is pending.
C28_OneCallbackIffPlaying ==
    /\ isPlaying <=> scheduled > 0
    /\ scheduled <= 1

====
